---- MODULE Spec2Model ----
(***************************************************************************)
(* A model of src/chartink_webhook.py: the alert endpoint, the entry       *)
(* threads (secure_place_thread / place_order), the exit monitor and the   *)
(* end-of-day reconciliation, sharing open_positions, active_trades, the   *)
(* lock, trade_log and the positions file.                                 *)
(*                                                                         *)
(* Prices are integers in paise (the source's two-decimal floats times     *)
(* 100); 0 stands for None (a price the code tests with "if ltp").         *)
(* The IST wall clock is a phase number, see T_OPEN .. T_CLOSED.           *)
(***************************************************************************)
EXTENDS Integers, Sequences, FiniteSets, TLC

\* ------------------------------------------------------------------ bounds
\* Number of entry attempts (threads spawned by the alert endpoint) in a run
\* of the whole service.
NThreads == 1
\* Number of entry attempts in a run of the alert endpoint and the entry
\* threads alone.
NAlerts == 2
\* Number of entry attempts in a run that fills the endpoint with
\* simultaneous alerts.
NConcurrent == 3
\* Number of days a run lasts.
MaxDays == 2
\* Number of rows the open_trades table of exit_monitor.py may hold.
MaxTrades == 2

\* ------------------------------------------------------- program constants
\* TARGET_PCT, STOPLOSS_PCT, ENTRY_TOLERANCE, RISK_PCT in percent.
TARGET_PCT == 2
STOPLOSS_PCT == 1
ENTRY_TOLERANCE == 2
RISK_PCT == 1
\* CAPITAL_PER_TRADE in paise (20000 rupees).
CAPITAL_PER_TRADE == 2000000
\* ATR_MULT times 10 (1.5).
ATR_MULT == 15
\* The ATR stop's minimal distance, 0.2% of entry, in tenths of a percent.
MIN_DIST_PERMILLE == 2
\* get_quantity's price brackets (paise) and quantities.
LOW_PRICE_LIMIT == 20000
MID_PRICE_LIMIT == 60000
LOW_QTY == 10
MID_QTY == 10
HIGH_QTY == 5
STOP_METHOD == "ATR"

\* Phases of the IST clock: the session from 09:15 to 15:10, [15:10, 15:15),
\* [15:15, 15:25:30), [15:25:30, 15:30], after 15:30. A run starts inside the
\* session, and the clock is not observed between 15:25:00 and 15:25:30, so
\* that the report time (15:25) and the reconciliation's deadline (15:25:30)
\* are reached together.
T_OPEN == 0
T_1510 == 1
T_1515 == 2
T_1525 == 3
T_CLOSED == 4

\* timeout_until of verify_and_clear_positions_after_autosquare.
T_DEADLINE == T_1525

None == 0

\* ------------------------------------------------------------ environment
\* _normalize_incoming_symbol: symbol.strip().upper() without "NSE:",
\* "BSE:" and "-EQ", for the spellings of the alerts below; every other
\* symbol of the model is its own normal form.
_normalize_incoming_symbol(symbol) ==
    IF symbol \in {"aaa", "NSE:AAA-EQ", "nse:aaa", "AAA-EQ"} THEN "AAA"
    ELSE symbol

\* The prices the quotes API may answer for the code a symbol resolves to
\* (None: no usable quote).
Quotes(symbol) ==
    LET base == _normalize_incoming_symbol(symbol)
    IN  IF base = "AAA" THEN {None, 10100, 10400}
        ELSE IF base = "BBB" THEN {None, 5000, 6000}
        ELSE IF base = "DDD" THEN {None, 2100000}
        ELSE {None, 40}

\* What get_recent_15min_candles may answer, reduced to what the callers
\* compute from the bars: the ATR and the previous closed bar's high.
NoCandles == [atr |-> None, prev_high |-> None]

Candles == {NoCandles, [atr |-> 40, prev_high |-> 10000], [atr |-> 40, prev_high |-> 4800]}

\* The candles of a share that trades at 21000 rupees, and the candles the
\* API may answer for a symbol.
DearCandles == {NoCandles, [atr |-> 2000, prev_high |-> 2100000]}

CandlesOf(symbol) == IF symbol = "DDD" THEN DearCandles ELSE Candles

\* The JSON body of a request to /chartink: an object or a list. A
\* comma-joined string is the sequence of the pieces between its commas, each
\* without blanks around it (the empty string is one empty piece); items are
\* the per-symbol objects of the other payload shapes.
Body(kind, stocks, trigger_prices, items) ==
    [kind |-> kind, stocks |-> stocks, trigger_prices |-> trigger_prices,
     items |-> items]

\* An object with the keys stocks and trigger_prices.
Joined(stocks, trigger_prices) == Body("object", stocks, trigger_prices, << >>)

NoData == Body("", << >>, << >>, << >>)

\* The alerts of a run of the whole service name one symbol, those of a run
\* of the entry threads alone one symbol or two.
ServicePayloads == { Joined(<< "AAA" >>, << "100" >>) }

Payloads == ServicePayloads \cup { Joined(<< "AAA", "BBB" >>, << "100", "50" >>) }

\* An alert for a share that trades below half a rupee.
PennyPayloads == { Joined(<< "CCC" >>, << "0.4" >>) }

\* An alert for a share one unit of which costs more than CAPITAL_PER_TRADE.
DearPayloads == { Joined(<< "DDD" >>, << "21000" >>) }

\* Alerts that spell one share in different ways.
SpelledPayloads ==
    { Joined(<< "AAA" >>, << "100" >>), Joined(<< "aaa" >>, << "100" >>),
      Joined(<< "NSE:AAA-EQ" >>, << "100" >>) }

\* The bodies of a run of the alert endpoint: the well-formed ones, an
\* unparsable price, a missing price, a list of per-symbol objects, a single
\* per-symbol object, an alert without symbols.
Bodies ==
    Payloads
    \cup { Joined(<< "AAA", "BBB" >>, << "abc", "50" >>),
           Joined(<< "AAA", "BBB" >>, << "", "50" >>),
           Body("list", << >>, << >>, << [symbol |-> "AAA", price |-> "100"] >>),
           Body("object", << "" >>, << "" >>, << [symbol |-> "AAA", price |-> "100"] >>),
           Joined(<< "" >>, << "" >>) }

\* ------------------------------------------------------------- pure parts
Max(a, b) == IF a >= b THEN a ELSE b

Min(a, b) == IF a <= b THEN a ELSE b

\* round(n / d) to the nearest integer, halves to even, for n >= 0, d > 0.
RoundDiv(n, d) ==
    LET q == n \div d
        r == n % d
    IN  IF 2 * r < d THEN q
        ELSE IF 2 * r > d THEN q + 1
        ELSE IF q % 2 = 0 THEN q ELSE q + 1

\* round(entry_price * (1 - STOPLOSS_PCT), 2)
percent_stop(entry_price) == RoundDiv(entry_price * (100 - STOPLOSS_PCT), 100)

\* entry * (1 + TARGET_PCT) of exit_monitor, compared as ltp >= target.
ReachesTarget(ltp, entry) == ltp * 100 >= entry * (100 + TARGET_PCT)

\* dtime(9,15) <= now <= dtime(15,30)
is_market_hours(now) == now < T_CLOSED

\* compute_technical_stop for the configured STOP_METHOD; None when no
\* candles are available.
compute_technical_stop(entry_price, candles) ==
    IF candles = NoCandles THEN None
    ELSE IF STOP_METHOD = "ATR" /\ candles.atr # None
    THEN LET dist10 == candles.atr * ATR_MULT
         IN  IF dist10 * 100 < entry_price * MIN_DIST_PERMILLE
             THEN RoundDiv(entry_price * (1000 - MIN_DIST_PERMILLE), 1000)
             ELSE RoundDiv(entry_price * 10 - dist10, 10)
    ELSE percent_stop(entry_price)

get_quantity(price) ==
    IF price <= LOW_PRICE_LIMIT THEN LOW_QTY
    ELSE IF price <= MID_PRICE_LIMIT THEN MID_QTY
    ELSE HIGH_QTY

\* The sizing block of place_order without the cap of the order's value.
SizingUncapped(price, ltp, candles) ==
    IF ltp = None
    THEN [qty |-> Max(1, get_quantity(price)), tstop |-> None]
    ELSE LET ts0 == compute_technical_stop(ltp, candles)
             ts1 == IF ts0 = None THEN percent_stop(ltp) ELSE ts0
             tech_stop == IF ts1 >= ltp THEN percent_stop(ltp) ELSE ts1
             risk_per_share == ltp - tech_stop
         IN  IF risk_per_share <= 0
             THEN [qty |-> Max(1, get_quantity(ltp)), tstop |-> None]
             ELSE LET max_loss == (CAPITAL_PER_TRADE * RISK_PCT) \div 100
                  IN  [qty |-> Max(1, max_loss \div risk_per_share),
                       tstop |-> tech_stop]

\* The sizing block of place_order: the order quantity and the technical
\* stop it computed (None when the block did not compute one).
Sizing(price, ltp, candles) ==
    IF ltp = None
    THEN [qty |-> Max(1, get_quantity(price)), tstop |-> None]
    ELSE LET ts0 == compute_technical_stop(ltp, candles)
             ts1 == IF ts0 = None THEN percent_stop(ltp) ELSE ts0
             tech_stop == IF ts1 >= ltp THEN percent_stop(ltp) ELSE ts1
             risk_per_share == ltp - tech_stop
         IN  IF risk_per_share <= 0
             THEN [qty |-> Max(1, get_quantity(ltp)), tstop |-> None]
             ELSE LET max_loss == (CAPITAL_PER_TRADE * RISK_PCT) \div 100
                      qty_risk_based == Max(1, max_loss \div risk_per_share)
                      qty_value_based == Max(1, CAPITAL_PER_TRADE \div ltp)
                  IN  [qty |-> Max(1, Min(qty_risk_based, qty_value_based)),
                       tstop |-> tech_stop]

\* should_enter_trade without the comparison of the live price with the
\* trigger price.
should_enter_trade_untolerant(resolved, ltp, now, trigger_price, candles) ==
    IF ~resolved THEN "no_ltp"
    ELSE IF ltp = None THEN "no_ltp"
    ELSE IF now >= T_1510 THEN "post_15_10_time"
    ELSE IF candles = NoCandles THEN "no_candles"
    ELSE IF ltp * 100 > candles.prev_high * (100 + ENTRY_TOLERANCE)
         THEN "ltp_above_prev_high_too_much"
    ELSE "checks_passed"

\* should_enter_trade with the candles fetched and tested before the live
\* price is compared with the trigger price.
should_enter_trade_data_first(resolved, ltp, now, trigger_price, candles) ==
    IF ~resolved THEN "no_ltp"
    ELSE IF ltp = None THEN "no_ltp"
    ELSE IF now >= T_1510 THEN "post_15_10_time"
    ELSE IF candles = NoCandles THEN "no_candles"
    ELSE IF ltp * 100 > trigger_price * (100 + ENTRY_TOLERANCE) THEN "too_far_above_trigger"
    ELSE IF ltp * 100 > candles.prev_high * (100 + ENTRY_TOLERANCE)
         THEN "ltp_above_prev_high_too_much"
    ELSE "checks_passed"

\* should_enter_trade: the reason it returns ("checks_passed" for ok).
should_enter_trade(resolved, ltp, now, trigger_price, candles) ==
    IF ~resolved THEN "no_ltp"
    ELSE IF ltp = None THEN "no_ltp"
    ELSE IF now >= T_1510 THEN "post_15_10_time"
    ELSE IF ltp * 100 > trigger_price * (100 + ENTRY_TOLERANCE) THEN "too_far_above_trigger"
    ELSE IF candles = NoCandles THEN "no_candles"
    ELSE IF ltp * 100 > candles.prev_high * (100 + ENTRY_TOLERANCE)
         THEN "ltp_above_prev_high_too_much"
    ELSE "checks_passed"

\* ------------------------------------------------------ the alert's parsing
ValueError == -1

\* float(p) for the texts of the bodies above, in paise.
float(p) ==
    IF p = "100" THEN 10000
    ELSE IF p = "50" THEN 5000
    ELSE IF p = "0.4" THEN 40
    ELSE IF p = "21000" THEN 2100000
    ELSE ValueError

\* [float(p.strip()) for p in trigger_prices.split(",") if p.strip()]
price_list(trigger_prices) ==
    LET kept == SelectSeq(trigger_prices, LAMBDA p : p # "")
    IN  [i \in 1..Len(kept) |-> float(kept[i])]

\* The (symbol, price) pairs the loop of lines 857-861 starts a thread for,
\* given the prices of price_list: a symbol without a price is passed over.
RECURSIVE alert_pairs(_, _, _)
alert_pairs(stock_list, prices, idx) ==
    IF idx > Len(stock_list) THEN << >>
    ELSE LET price == IF idx <= Len(prices) THEN prices[idx] ELSE None
             rest == alert_pairs(stock_list, prices, idx + 1)
         IN  IF price # None THEN << << stock_list[idx], price >> >> \o rest
             ELSE rest

\* What chartink_alert does with a body: the status it answers and the
\* pairs it starts threads for. data.get raises on a list, float on an
\* unparsable price; both are answered by the except block, before any
\* thread was started.
handle_alert(data) ==
    IF data.kind # "object" THEN [status |-> "error", pairs |-> << >>]
    ELSE IF data.stocks = << "" >> THEN [status |-> "error", pairs |-> << >>]
    ELSE LET prices == price_list(data.trigger_prices)
         IN  IF \E i \in 1..Len(prices) : prices[i] = ValueError
             THEN [status |-> "error", pairs |-> << >>]
             ELSE [status |-> "success",
                   pairs |-> alert_pairs(data.stocks, prices, 1)]

\* ------------------------------------------------- the positions file's text
\* The decimal digits of a natural number, as json.dump writes an int.
RECURSIVE Digits(_)
Digits(n) == IF n < 10 THEN << n >> ELSE Append(Digits(n \div 10), n % 10)

\* The natural number a sequence of decimal digits stands for.
RECURSIVE Number(_)
Number(ds) ==
    IF Len(ds) = 0 THEN 0
    ELSE 10 * Number(SubSeq(ds, 1, Len(ds) - 1)) + ds[Len(ds)]

\* float.__repr__ of a price, as json.dump writes it: the digits before the
\* point and the shortest fraction that gives the value back (100.0, 97.5,
\* 99.99).
float_repr(x) ==
    [whole |-> Digits(x \div 100),
     frac  |-> IF x % 100 = 0 THEN << 0 >>
               ELSE IF x % 10 = 0 THEN << (x % 100) \div 10 >>
               ELSE << (x % 100) \div 10, x % 10 >>]

\* A reading of a number's text that drops the fraction.
parse_float_whole(text) == Number(text.whole) * 100

\* float(text), as json.load reads a number with a fraction.
parse_float(text) ==
    Number(text.whole) * 100
    + (IF Len(text.frac) = 1 THEN 10 * text.frac[1]
       ELSE 10 * text.frac[1] + text.frac[2])

\* The JSON object of one position.
DumpPosition(pos) ==
    [entry_price |-> float_repr(pos.entry_price),
     qty         |-> Digits(pos.qty),
     timestamp   |-> pos.timestamp,
     stop_price  |-> float_repr(pos.stop_price)]

LoadPosition(obj) ==
    [entry_price |-> parse_float(obj.entry_price),
     qty         |-> Number(obj.qty),
     timestamp   |-> obj.timestamp,
     stop_price  |-> parse_float(obj.stop_price)]

\* The content of a file: no document (the file is missing, or was opened
\* for writing and nothing has been flushed yet) or one JSON document.
NoDocument == << >>

\* json.dump(open_positions, f, indent=2): the document, symbol by symbol.
json_dump(positions) ==
    << [s \in DOMAIN positions |-> DumpPosition(positions[s])] >>

\* load_positions: json.load of the file, {} when the file is missing or is
\* not a JSON document.
load_positions(file) ==
    IF file = NoDocument THEN [s \in {} |-> 0]
    ELSE [s \in DOMAIN file[1] |-> LoadPosition(file[1][s])]

\* ------------------------------------------------------------------ state
VARIABLES
    now,             \* the IST clock's phase
    today,           \* the IST clock's date, a day number
    TRADE_MODE,      \* "TEST" or "REAL", read from the environment at import
    alert,           \* the last request to /chartink and the answer's status
    open_positions,  \* symbol -> [entry_price, qty, timestamp, stop_price]
    active_trades,   \* symbols whose entry attempt is in progress
    lock,            \* the thread holding the lock, 0 when free
    trade_log,       \* the records log_trade_memory appended
    positions_file,  \* the content of POSITIONS_FILE
    SYMBOL_CACHE,    \* the symbols resolve_symbol_code has resolved
    broker_orders,   \* the orders fyers.place_order was called with
    th,              \* the entry threads: position in the code and locals
    mon,             \* the exit monitor thread: position and locals
    db,              \* exit_monitor.py: the database server and its open_trades
    ml,              \* exit_monitor.py: monitor_loop's position and locals
    spo              \* the last call of safe_place_order: its order, the
                     \* broker's answers to it and what it did

vars == << now, today, TRADE_MODE, db, ml, spo, alert, open_positions, active_trades, lock, trade_log,
           positions_file, SYMBOL_CACHE, broker_orders, th, mon >>

NoPositions == [s \in {} |-> None]

\* now_ist().isoformat(), of which the model keeps the date.
isoformat == [date |-> today]

\* What get_broker_open_positions returns: None, or a dict of net quantities
\* by symbol; a dict may hold a quantity float() cannot read.
NoReport == [kind |-> "none", netQty |-> NoPositions]

Report(netQty) == [kind |-> "dict", netQty |-> netQty]

Unreadable == [kind |-> "unreadable", netQty |-> NoPositions]

\* An entry thread's locals: the alert's symbol and price, the live price
\* (the one in the dict should_enter_trade returned, then the one place_order
\* sized the order with), what the thread returns (the reason
\* of a skip, else "ok" or "failed" for the broker's answer), the text
\* save_positions has written to its file object and not yet flushed.
IdleThread == [pc |-> "idle", symbol |-> "", price |-> None, ltp |-> None, ret |-> "",
               buf |-> NoDocument]

DoneThread == [IdleThread EXCEPT !.pc = "done"]

\* The exit monitor's locals: now (read at the top of an iteration), the
\* items its for loop still has to visit, the position it is closing, the
\* price it passes to place_order, which loop called place_order, emailed,
\* the text save_positions has not yet flushed, where the monitor goes on
\* after save_positions, and broker_pos, the report the reconciliation
\* cleared the positions on.
IdleMonitor == [pc |-> "top", now |-> T_OPEN, todo |-> NoPositions, symbol |-> "",
                ltp |-> None, qty |-> 0, caller |-> "", emailed |-> FALSE,
                buf |-> NoDocument, resume |-> "", broker_pos |-> NoReport]

\* No call of check_and_sell yet.
NoCheck == [trade |-> 0, ltp |-> None, resp |-> "none"]

\* exit_monitor.py at the start of monitor_loop: the module's initial
\* connection (lines 38-39) is made, the loop is about to run its SELECT;
\* trades are the rows it fetched and has not checked yet, attempt counts
\* the connection attempts get_db_connection has made in its current or
\* last call, conn tells whether the connection the loop holds is alive,
\* TEST_MODE is the module's setting (line 45), and checked is the last call
\* of check_and_sell: the row, the price it fetched and the broker's answer
\* to its SELL.
IdleLoop == [pc |-> "select", trades |-> {}, attempt |-> 0, conn |-> TRUE,
             TEST_MODE |-> TRUE, checked |-> NoCheck]

Order(symbol, side) == [symbol |-> symbol, side |-> side]

\* No call of safe_place_order yet.
NoCall == [order |-> Order("", 0), answers |-> << >>, calls |-> 0,
           refreshes |-> 0, resp |-> ""]

Record(symbol, action, status) ==
    [symbol |-> symbol, action |-> action, status |-> status]

\* trade_log.append(record)
log_trade_memory(record) == trade_log' = trade_log \cup {record}

\* open_positions[symbol] = pos
Put(positions, symbol, pos) ==
    [s \in DOMAIN positions \cup {symbol} |->
        IF s = symbol THEN pos ELSE positions[s]]

\* open_positions.pop(symbol, None)
Pop(positions, symbol) ==
    [s \in DOMAIN positions \ {symbol} |-> positions[s]]

\* save_positions, line 117: open(POSITIONS_FILE, "w") truncates the file,
\* json.dump puts the text of open_positions into the file object's buffer.
save_positions == positions_file' = NoDocument

\* save_positions, the end of its with block: the buffered text is flushed
\* to the file.
save_positions_close(buf) == positions_file' = buf

\* What fyers.place_order may do with an order: answer s == ok, answer an
\* error, answer the authentication failure (code -16), raise.
BrokerAnswers == {"ok", "rejected", "auth_failed", "raises"}

\* The response safe_place_order makes of the broker's last answer: the
\* answer itself, {} when the call raised.
Response(answer) == IF answer = "raises" THEN "{}" ELSE answer

\* A safe_place_order that refreshes the token and submits again as long as
\* the broker answers the authentication failure.
safe_place_order_storm(mode, answers) ==
    IF mode # "REAL"
    THEN [s |-> "ok", calls |-> 0, refreshes |-> 0, resp |-> "ok"]
    ELSE LET failures == {i \in 1..Len(answers) :
                            \A j \in 1..i : answers[j] = "auth_failed"}
             calls == Min(Cardinality(failures) + 1, Len(answers))
         IN  [s |-> IF answers[calls] = "ok" THEN "ok" ELSE "failed",
              calls |-> calls, refreshes |-> calls - 1,
              resp |-> Response(answers[calls])]

\* safe_place_order, lines 422-439, for the answers the broker gives to the
\* successive submissions of the order: whether the response has s == ok,
\* how many times fyers.place_order and refresh_access_token were called,
\* the response returned.
safe_place_order_run(mode, answers) ==
    IF mode # "REAL"
    THEN [s |-> "ok", calls |-> 0, refreshes |-> 0, resp |-> "ok"]
    ELSE IF answers[1] = "auth_failed"
    THEN [s |-> IF answers[2] = "ok" THEN "ok" ELSE "failed",
          calls |-> 2, refreshes |-> 1, resp |-> Response(answers[2])]
    ELSE [s |-> IF answers[1] = "ok" THEN "ok" ELSE "failed",
          calls |-> 1, refreshes |-> 0, resp |-> Response(answers[1])]

\* The answers of the broker to two successive submissions.
AnswerPairs == {<< a, b >> : a \in BrokerAnswers, b \in BrokerAnswers}

\* safe_place_order without the TRADE_MODE test: the broker is called in
\* every mode.
safe_place_order_unmoded(mode) ==
    {[s |-> a, calls |-> 1] : a \in {"ok", "failed"}}
    \cup {[s |-> a, calls |-> 2] : a \in {"ok", "failed"}}

\* safe_place_order: what it returns ("ok": a response with s == ok) and
\* how many times it called the broker, for every answer of the broker.
safe_place_order(mode) ==
    {[s |-> safe_place_order_run(mode, answers).s,
      calls |-> safe_place_order_run(mode, answers).calls] : answers \in AnswerPairs}

\* The broker's book after safe_place_order sent the order.
Submitted(orders, order, calls) ==
    IF calls > 0 THEN orders \cup {order} ELSE orders

\* The state after startup_event, for a positions file found at startup
\* and a number of entry attempts the run will see.
StartedService(file, attempts) ==
    /\ now = T_OPEN
    /\ today = 1
    /\ TRADE_MODE \in {"TEST", "REAL"}
    /\ alert = [data |-> NoData, status |-> ""]
    /\ positions_file = file
    /\ open_positions = load_positions(file)
    /\ active_trades = {}
    /\ lock = 0
    /\ trade_log = {}
    /\ SYMBOL_CACHE = {}
    /\ broker_orders = {}
    /\ th = [t \in 1..attempts |-> IdleThread]
    /\ mon = IdleMonitor
    /\ db = [reachable |-> TRUE, open_trades |-> {}]
    /\ spo = NoCall

\* The same with exit_monitor.py as its source sets it up.
Started(file, attempts) ==
    /\ StartedService(file, attempts)
    /\ ml = IdleLoop

Init == Started(NoDocument, NThreads)

\* ------------------------------------------------------------------ clock
Tick ==
    /\ now < T_CLOSED
    /\ now' = now + 1
    /\ UNCHANGED << today, TRADE_MODE, db, ml, spo, alert, open_positions, active_trades, lock, trade_log,
                    positions_file, SYMBOL_CACHE, broker_orders, th, mon >>

\* ------------------------------------------------------- the alert endpoint
Threads == DOMAIN th

Spawned == Cardinality({t \in Threads : th[t].pc # "idle"})

\* chartink_alert: the body is parsed, one secure_place_thread is started
\* per (symbol, price) pair, the request is answered.
chartink_alert(payloads) ==
    \E data \in payloads :
        LET handled == handle_alert(data)
            payload == handled.pairs
        IN  /\ mon.pc # "down"
            /\ Spawned + Len(payload) <= Cardinality(Threads)
            /\ th' = [t \in Threads |->
                        IF t > Spawned /\ t <= Spawned + Len(payload)
                        THEN [IdleThread EXCEPT !.pc = "start",
                                                !.symbol = payload[t - Spawned][1],
                                                !.price = payload[t - Spawned][2]]
                        ELSE th[t]]
            /\ alert' = [data |-> data, status |-> handled.status]
            /\ UNCHANGED << now, today, TRADE_MODE, db, ml, spo, open_positions, active_trades, lock,
                            trade_log, positions_file, SYMBOL_CACHE, broker_orders, mon >>

\* ------------------------------------------------------- the entry threads
\* A return of secure_place_thread: on to its finally block.
Return(t, ret) == th' = [th EXCEPT ![t].pc = "finally", ![t].ret = ret]

\* secure_place_thread, lines 872-886: the sleep and the cutoff check.
SecureStart(t) ==
    /\ th[t].pc = "start"
    /\ IF now >= T_1510
       THEN /\ log_trade_memory(Record(th[t].symbol, "BUY_SKIPPED_POST_15_10", "skipped_late"))
            /\ Return(t, "post_15_10")
       ELSE /\ th' = [th EXCEPT ![t].pc = "guard"]
            /\ UNCHANGED trade_log
    /\ UNCHANGED << now, today, TRADE_MODE, db, ml, spo, alert, open_positions, active_trades, lock,
                    positions_file, SYMBOL_CACHE, broker_orders, mon >>

\* with lock: (line 889)
GuardAcquire(t) ==
    /\ th[t].pc = "guard"
    /\ lock = 0
    /\ lock' = t
    /\ th' = [th EXCEPT ![t].pc = "guard_locked"]
    /\ UNCHANGED << now, today, TRADE_MODE, db, ml, spo, alert, open_positions, active_trades, trade_log,
                    positions_file, SYMBOL_CACHE, broker_orders, mon >>

\* The duplicate guard, lines 890-904, and the release of the lock.
GuardCheck(t) ==
    /\ th[t].pc = "guard_locked"
    /\ lock' = 0
    /\ IF th[t].symbol \in active_trades \/ th[t].symbol \in DOMAIN open_positions
       THEN /\ log_trade_memory(Record(th[t].symbol, "BUY_SKIPPED_DUPLICATE", "duplicate_skipped"))
            /\ Return(t, "duplicate")
            /\ UNCHANGED active_trades
       ELSE /\ active_trades' = active_trades \cup {th[t].symbol}
            /\ th' = [th EXCEPT ![t].pc = "po_time"]
            /\ UNCHANGED trade_log
    /\ UNCHANGED << now, today, TRADE_MODE, db, ml, spo, alert, open_positions, positions_file,
                    SYMBOL_CACHE, broker_orders, mon >>

\* place_order(symbol, price, side=1), lines 502-516: the cutoff and the
\* market-hours checks.
PlaceOrderTime(t) ==
    /\ th[t].pc = "po_time"
    /\ IF now >= T_1510
       THEN /\ log_trade_memory(Record(th[t].symbol, "BUY_SKIPPED_LATE", "skipped_late"))
            /\ Return(t, "post_15_10")
       ELSE IF TRADE_MODE = "REAL" /\ ~is_market_hours(now)
       THEN /\ log_trade_memory(Record(th[t].symbol, "BUY_SKIPPED_MARKET_CLOSED", "market_closed"))
            /\ Return(t, "market_closed")
       ELSE /\ th' = [th EXCEPT ![t].pc = "po_checks"]
            /\ UNCHANGED trade_log
    /\ UNCHANGED << now, today, TRADE_MODE, db, ml, spo, alert, open_positions, active_trades, lock,
                    positions_file, SYMBOL_CACHE, broker_orders, mon >>

\* resolve_symbol_code: a cached code is returned, else the candidates are
\* tried against the quotes API and a hit is cached.
Resolutions(symbol) ==
    IF _normalize_incoming_symbol(symbol) \in SYMBOL_CACHE THEN {TRUE} ELSE BOOLEAN

Resolve(symbol, resolved) ==
    SYMBOL_CACHE' = IF resolved
                    THEN SYMBOL_CACHE \cup {_normalize_incoming_symbol(symbol)}
                    ELSE SYMBOL_CACHE

\* place_order lines 519-527: should_enter_trade and the skip it causes.
PlaceOrderChecks(t) ==
    /\ th[t].pc = "po_checks"
    /\ \E resolved \in Resolutions(th[t].symbol), ltp \in Quotes(th[t].symbol),
          candles \in CandlesOf(th[t].symbol) :
         LET reason == should_enter_trade(resolved, ltp, now, th[t].price, candles)
         IN  /\ Resolve(th[t].symbol, resolved)
             /\ IF reason # "checks_passed"
                THEN /\ log_trade_memory(Record(th[t].symbol, "BUY_SKIPPED", reason))
                     /\ th' = [th EXCEPT ![t].pc = "finally", ![t].ret = reason,
                                         ![t].ltp = IF reason \in {"no_ltp", "post_15_10_time"}
                                                    THEN None ELSE ltp]
                ELSE /\ th' = [th EXCEPT ![t].pc = "po_buy", ![t].ltp = ltp]
                     /\ UNCHANGED trade_log
    /\ UNCHANGED << now, today, TRADE_MODE, db, ml, spo, alert, open_positions, active_trades, lock,
                    positions_file, broker_orders, mon >>

\* The candles the second compute_technical_stop of place_order (line 614)
\* may see: it is called only when the sizing block computed no stop.
SecondCandles(symbol, tstop) ==
    IF tstop # None THEN {NoCandles} ELSE CandlesOf(symbol)

\* The position place_order records for an accepted BUY, lines 611-625.
NewPosition(price, ltp, qty, tstop, candles) ==
    LET entry_price == IF ltp # None THEN ltp ELSE price
        ts0 == IF tstop # None THEN tstop
               ELSE compute_technical_stop(entry_price, candles)
    IN  [entry_price |-> entry_price, qty |-> qty, timestamp |-> isoformat,
         stop_price |-> IF ts0 = None THEN percent_stop(entry_price) ELSE ts0]

\* place_order for a BUY that records the position whatever the broker
\* answered.
PlaceOrderBuyUnchecked(t) ==
    /\ th[t].pc = "po_buy"
    /\ \E ltp \in Quotes(th[t].symbol), candles \in CandlesOf(th[t].symbol),
          r \in safe_place_order(TRADE_MODE) :
         LET sz == Sizing(th[t].price, ltp, candles)
         IN  /\ broker_orders' = Submitted(broker_orders, Order(th[t].symbol, 1), r.calls)
             /\ log_trade_memory(Record(th[t].symbol, "BUY", r.s))
             /\ \E candles2 \in SecondCandles(th[t].symbol, sz.tstop) :
                    open_positions' = Put(open_positions, th[t].symbol,
                        NewPosition(th[t].price, ltp, sz.qty, sz.tstop, candles2))
             /\ th' = [th EXCEPT ![t].pc = "po_save", ![t].ret = r.s, ![t].ltp = ltp]
    /\ UNCHANGED << now, today, TRADE_MODE, db, ml, spo, alert, active_trades, lock, positions_file,
                    SYMBOL_CACHE, mon >>

\* place_order lines 537-625 for a BUY: the quote, the sizing,
\* safe_place_order, the trade record and, when the order was accepted,
\* the position.
PlaceOrderBuy(t) ==
    /\ th[t].pc = "po_buy"
    /\ \E ltp \in Quotes(th[t].symbol), candles \in CandlesOf(th[t].symbol),
          r \in safe_place_order(TRADE_MODE) :
         LET sz == Sizing(th[t].price, ltp, candles)
         IN  /\ broker_orders' = Submitted(broker_orders, Order(th[t].symbol, 1), r.calls)
             /\ log_trade_memory(Record(th[t].symbol, "BUY", r.s))
             /\ IF r.s = "ok"
                THEN /\ \E candles2 \in SecondCandles(th[t].symbol, sz.tstop) :
                        open_positions' = Put(open_positions, th[t].symbol,
                            NewPosition(th[t].price, ltp, sz.qty, sz.tstop, candles2))
                     /\ th' = [th EXCEPT ![t].pc = "po_save", ![t].ret = "ok",
                                         ![t].ltp = ltp]
                ELSE /\ th' = [th EXCEPT ![t].pc = "finally", ![t].ret = "failed",
                                         ![t].ltp = ltp]
                     /\ UNCHANGED open_positions
    /\ UNCHANGED << now, today, TRADE_MODE, db, ml, spo, alert, active_trades, lock, positions_file,
                    SYMBOL_CACHE, mon >>

\* place_order line 626: save_positions opens the file and dumps.
PlaceOrderSave(t) ==
    /\ th[t].pc = "po_save"
    /\ save_positions
    /\ th' = [th EXCEPT ![t].pc = "po_saved", ![t].buf = json_dump(open_positions)]
    /\ UNCHANGED << now, today, TRADE_MODE, db, ml, spo, alert, open_positions, active_trades, lock,
                    trade_log, SYMBOL_CACHE, broker_orders, mon >>

\* save_positions closes the file, place_order returns.
PlaceOrderSaved(t) ==
    /\ th[t].pc = "po_saved"
    /\ save_positions_close(th[t].buf)
    /\ th' = [th EXCEPT ![t].pc = "finally", ![t].ret = "ok", ![t].buf = NoDocument]
    /\ UNCHANGED << now, today, TRADE_MODE, db, ml, spo, alert, open_positions, active_trades, lock,
                    trade_log, SYMBOL_CACHE, broker_orders, mon >>

\* finally: with lock: (lines 914-915)
FinallyAcquire(t) ==
    /\ th[t].pc = "finally"
    /\ lock = 0
    /\ lock' = t
    /\ th' = [th EXCEPT ![t].pc = "finally_locked"]
    /\ UNCHANGED << now, today, TRADE_MODE, db, ml, spo, alert, open_positions, active_trades, trade_log,
                    positions_file, SYMBOL_CACHE, broker_orders, mon >>

\* An end of the thread that discards the marker only after an accepted
\* order.
FinallyDiscardAfterOk(t) ==
    /\ th[t].pc = "finally_locked"
    /\ active_trades' = IF th[t].ret = "ok" THEN active_trades \ {th[t].symbol}
                        ELSE active_trades
    /\ lock' = 0
    /\ th' = [th EXCEPT ![t] = DoneThread]
    /\ UNCHANGED << now, today, TRADE_MODE, db, ml, spo, alert, open_positions, trade_log, positions_file,
                    SYMBOL_CACHE, broker_orders, mon >>

\* active_trades.discard(symbol) (line 916), the release, the thread's end.
FinallyDiscard(t) ==
    /\ th[t].pc = "finally_locked"
    /\ active_trades' = active_trades \ {th[t].symbol}
    /\ lock' = 0
    /\ th' = [th EXCEPT ![t] = DoneThread]
    /\ UNCHANGED << now, today, TRADE_MODE, db, ml, spo, alert, open_positions, trade_log, positions_file,
                    SYMBOL_CACHE, broker_orders, mon >>

secure_place_thread(t) ==
    \/ SecureStart(t)
    \/ GuardAcquire(t)
    \/ GuardCheck(t)
    \/ PlaceOrderTime(t)
    \/ PlaceOrderChecks(t)
    \/ PlaceOrderBuy(t)
    \/ PlaceOrderSave(t)
    \/ PlaceOrderSaved(t)
    \/ FinallyAcquire(t)
    \/ FinallyDiscard(t)

\* ------------------------------------------------------- the exit monitor
\* One item less for the monitor's for loop to visit.
Visited(symbol) == [s \in DOMAIN mon.todo \ {symbol} |-> mon.todo[s]]

\* The stop exit_monitor uses for a position, lines 761-771, as ltp <= stop.
AtStop(ltp, pos) ==
    IF pos.stop_price # None
    THEN ltp <= pos.stop_price
    ELSE ltp * 100 <= pos.entry_price * (100 - STOPLOSS_PCT)

\* An exit condition that takes any price at or above the entry price for
\* the target.
ExitTriggeredEarly(ltp, pos) == ltp >= pos.entry_price \/ AtStop(ltp, pos)

\* The exit condition of line 773.
ExitTriggered(ltp, pos) == ReachesTarget(ltp, pos.entry_price) \/ AtStop(ltp, pos)

\* exit_monitor lines 736-740 and 785-792: the top of an iteration.
MonitorTop ==
    /\ mon.pc = "top"
    /\ IF now < T_1510
       THEN mon' = [mon EXCEPT !.pc = "scan", !.todo = open_positions]
       ELSE IF now >= T_1515
       THEN mon' = [mon EXCEPT !.pc = "verify", !.now = now]
       ELSE mon' = [mon EXCEPT !.pc = "email", !.now = now]
    /\ UNCHANGED << now, today, TRADE_MODE, db, ml, spo, alert, open_positions, active_trades, lock, trade_log,
                    positions_file, SYMBOL_CACHE, broker_orders, th >>

\* Where the monitor goes on after place_order or a save: the next item of
\* the loop that was closing mon.symbol.
Continue(pc) ==
    [mon EXCEPT !.pc = pc, !.todo = Visited(mon.symbol), !.symbol = "",
                !.ltp = None, !.qty = 0, !.caller = ""]

\* The monitor's locals when an exception takes it out of its try block.
Raised == [IdleMonitor EXCEPT !.pc = "except", !.emailed = mon.emailed]

\* What fyers.quotes may answer in exit_monitor: a dict line 754 can read,
\* or one it cannot (an empty list of quotes), which raises there.
QuoteShapes == {"readable", "unreadable"}

\* exit_monitor lines 741-758: the next position of the for loop, its code
\* and its live price; the position is passed over when either is missing.
MonitorFetch ==
    /\ mon.pc = "scan"
    /\ mon.todo # NoPositions
    /\ \E symbol \in DOMAIN mon.todo :
       \E resolved \in Resolutions(symbol), ltp \in Quotes(symbol),
          shape \in QuoteShapes :
         /\ Resolve(symbol, resolved)
         /\ IF resolved /\ shape = "unreadable"
            THEN mon' = Raised
            ELSE IF resolved /\ ltp # None
            THEN mon' = [mon EXCEPT !.pc = "decide", !.symbol = symbol,
                                    !.ltp = ltp, !.caller = "scan"]
            ELSE mon' = [mon EXCEPT !.todo = Visited(symbol)]
    /\ UNCHANGED << now, today, TRADE_MODE, db, ml, spo, alert, open_positions, active_trades, lock, trade_log,
                    positions_file, broker_orders, th >>

\* exit_monitor lines 759-781: the exit condition; an exit is simulated
\* (TEST) or handed to place_order (REAL).
MonitorDecide ==
    /\ mon.pc = "decide"
    /\ IF ExitTriggered(mon.ltp, mon.todo[mon.symbol])
       THEN IF TRADE_MODE = "REAL"
            THEN /\ mon' = [mon EXCEPT !.pc = "sell"]
                 /\ UNCHANGED << trade_log, open_positions >>
            ELSE /\ log_trade_memory(Record(mon.symbol, "SELL_SIM", "simulated_exit"))
                 /\ open_positions' = Pop(open_positions, mon.symbol)
                 /\ mon' = [mon EXCEPT !.pc = "save"]
       ELSE /\ mon' = Continue("scan")
            /\ UNCHANGED << trade_log, open_positions >>
    /\ UNCHANGED << now, today, TRADE_MODE, db, ml, spo, alert, active_trades, lock, positions_file,
                    SYMBOL_CACHE, broker_orders, th >>

\* The for loop of lines 741-781 is over: time.sleep(10), continue.
MonitorSleep ==
    /\ mon.pc = "scan"
    /\ mon.todo = NoPositions
    /\ mon' = [mon EXCEPT !.pc = "top"]
    /\ UNCHANGED << now, today, TRADE_MODE, db, ml, spo, alert, open_positions, active_trades, lock, trade_log,
                    positions_file, SYMBOL_CACHE, broker_orders, th >>

\* place_order(symbol, ltp, side=-1), lines 502-630: the market-hours check,
\* the symbol code, the quote, the sizing, safe_place_order, the trade
\* record and, when the SELL was accepted, the removal of the position.
MonitorSell ==
    /\ mon.pc = "sell"
    /\ IF TRADE_MODE = "REAL" /\ ~is_market_hours(now)
       THEN /\ log_trade_memory(Record(mon.symbol, "BUY_SKIPPED_MARKET_CLOSED", "market_closed"))
            /\ mon' = [mon EXCEPT !.pc = "returned"]
            /\ UNCHANGED << open_positions, SYMBOL_CACHE, broker_orders >>
       ELSE \E resolved \in Resolutions(mon.symbol), ltp \in Quotes(mon.symbol),
               candles \in CandlesOf(mon.symbol), r \in safe_place_order(TRADE_MODE) :
              /\ Resolve(mon.symbol, resolved)
              /\ IF ~resolved
                 THEN /\ log_trade_memory(Record(mon.symbol, "SELL_SKIPPED_NO_SYMBOL", "no_symbol"))
                      /\ mon' = [mon EXCEPT !.pc = "returned"]
                      /\ UNCHANGED << open_positions, broker_orders >>
                 ELSE LET sz == Sizing(mon.ltp, ltp, candles)
                      IN  /\ broker_orders' = Submitted(broker_orders,
                                                  Order(mon.symbol, -1), r.calls)
                          /\ log_trade_memory(Record(mon.symbol, "SELL", r.s))
                          /\ IF r.s = "ok"
                             THEN /\ open_positions' = Pop(open_positions, mon.symbol)
                                  /\ mon' = [mon EXCEPT !.pc = "sell_save", !.qty = sz.qty]
                             ELSE /\ mon' = [mon EXCEPT !.pc = "returned", !.qty = sz.qty]
                                  /\ UNCHANGED open_positions
    /\ UNCHANGED << now, today, TRADE_MODE, db, ml, spo, alert, active_trades, lock, positions_file, th >>

\* place_order line 631: save_positions after an accepted SELL opens the
\* file and dumps.
MonitorSellSave ==
    /\ mon.pc = "sell_save"
    /\ save_positions
    /\ mon' = [mon EXCEPT !.pc = "saved", !.buf = json_dump(open_positions),
                           !.resume = "returned"]
    /\ UNCHANGED << now, today, TRADE_MODE, db, ml, spo, alert, open_positions, active_trades, lock, trade_log,
                    SYMBOL_CACHE, broker_orders, th >>

\* place_order has returned: exit_monitor goes on with its loop (line 776),
\* the reconciliation pops the position whatever the answer (line 713).
MonitorReturned ==
    /\ mon.pc = "returned"
    /\ IF mon.caller = "scan"
       THEN /\ mon' = Continue("scan")
            /\ UNCHANGED open_positions
       ELSE /\ open_positions' = Pop(open_positions, mon.symbol)
            /\ mon' = [mon EXCEPT !.pc = "save"]
    /\ UNCHANGED << now, today, TRADE_MODE, db, ml, spo, alert, active_trades, lock, trade_log,
                    positions_file, SYMBOL_CACHE, broker_orders, th >>

\* save_positions after a pop, line 781 (simulated exit) and line 714
\* (reconciliation), opens the file and dumps.
MonitorSave ==
    /\ mon.pc = "save"
    /\ save_positions
    /\ mon' = [mon EXCEPT !.pc = "saved", !.buf = json_dump(open_positions),
                           !.resume = mon.caller]
    /\ UNCHANGED << now, today, TRADE_MODE, db, ml, spo, alert, open_positions, active_trades, lock, trade_log,
                    SYMBOL_CACHE, broker_orders, th >>

\* save_positions closes the file; the monitor goes on where it called
\* save_positions: place_order returns, or the loop takes its next item, or
\* the reconciliation returns True.
MonitorSaved ==
    /\ mon.pc = "saved"
    /\ save_positions_close(mon.buf)
    /\ mon' = IF mon.resume \in {"scan", "close"}
              THEN [Continue(mon.resume) EXCEPT !.buf = NoDocument, !.resume = ""]
              ELSE [mon EXCEPT !.pc = mon.resume, !.buf = NoDocument, !.resume = "",
                               !.broker_pos = NoReport]
    /\ UNCHANGED << now, today, TRADE_MODE, db, ml, spo, alert, open_positions, active_trades, lock, trade_log,
                    SYMBOL_CACHE, broker_orders, th >>

\* ------------------------------------------------ end-of-day reconciliation
\* What get_broker_open_positions may tell verify_and_clear: nothing usable
\* (None), no position at all, a zero or a nonzero net quantity for a
\* symbol the service holds, a nonzero one for a symbol it does not hold, or
\* a net quantity float() cannot read (line 683 raises).
BrokerReports ==
    {NoReport, Unreadable, Report(NoPositions)}
    \cup {Report([s \in {symbol} |-> q]) : symbol \in {"AAA", "BBB"}, q \in {0, 5}}

\* A reading of the report that takes only short positions for open ones.
nonzero_short(broker_pos) ==
    {s \in DOMAIN broker_pos.netQty : broker_pos.netQty[s] < 0}

\* nonzero of line 683: the symbols of the report with a net quantity.
nonzero(broker_pos) ==
    {s \in DOMAIN broker_pos.netQty : broker_pos.netQty[s] # 0}

\* verify_and_clear_positions_after_autosquare lines 680-696: one turn of
\* the polling loop, or the end of it at the deadline.
VerifyPoll ==
    /\ mon.pc = "verify"
    /\ IF now < T_DEADLINE
       THEN \E broker_pos \in BrokerReports :
              IF broker_pos.kind = "none"
              THEN UNCHANGED << open_positions, mon >>
              ELSE IF broker_pos.kind = "unreadable"
              THEN /\ mon' = Raised
                   /\ UNCHANGED open_positions
              ELSE IF nonzero(broker_pos) = {}
              THEN /\ open_positions' = NoPositions
                   /\ mon' = [mon EXCEPT !.pc = "clear_save", !.broker_pos = broker_pos]
              ELSE UNCHANGED << open_positions, mon >>
       ELSE /\ IF open_positions # NoPositions
               THEN mon' = [mon EXCEPT !.pc = "close", !.todo = open_positions]
               ELSE mon' = [mon EXCEPT !.pc = "email"]
            /\ UNCHANGED open_positions
    /\ UNCHANGED << now, today, TRADE_MODE, db, ml, spo, alert, active_trades, lock, trade_log,
                    positions_file, SYMBOL_CACHE, broker_orders, th >>

\* line 686: save_positions after the clear opens the file and dumps.
VerifyClearSave ==
    /\ mon.pc = "clear_save"
    /\ save_positions
    /\ mon' = [mon EXCEPT !.pc = "saved", !.buf = json_dump(open_positions),
                           !.resume = "email"]
    /\ UNCHANGED << now, today, TRADE_MODE, db, ml, spo, alert, open_positions, active_trades, lock, trade_log,
                    SYMBOL_CACHE, broker_orders, th >>

\* lines 698-713: one remaining local position after the deadline. A SELL
\* through place_order (REAL, code resolved) or a simulated record, then the
\* pop.
VerifyClose ==
    /\ mon.pc = "close"
    /\ mon.todo # NoPositions
    /\ \E symbol \in DOMAIN mon.todo :
       \E resolved \in Resolutions(symbol), ltp \in Quotes(symbol) :
         LET ltp_to_use == IF resolved /\ ltp # None THEN ltp
                           ELSE mon.todo[symbol].entry_price
         IN  /\ Resolve(symbol, resolved)
             /\ IF TRADE_MODE = "REAL" /\ resolved
                THEN /\ mon' = [mon EXCEPT !.pc = "sell", !.symbol = symbol,
                                           !.ltp = ltp_to_use, !.caller = "close"]
                     /\ UNCHANGED << trade_log, open_positions >>
                ELSE /\ log_trade_memory(Record(symbol, "SELL_SIM_MANUAL_CLOSE",
                                                "simulated_manual_close"))
                     /\ open_positions' = Pop(open_positions, symbol)
                     /\ mon' = [mon EXCEPT !.pc = "save", !.symbol = symbol,
                                           !.caller = "close"]
    /\ UNCHANGED << now, today, TRADE_MODE, db, ml, spo, alert, active_trades, lock, positions_file,
                    broker_orders, th >>

\* lines 715-716: every remaining position was visited, return False.
VerifyDone ==
    /\ mon.pc = "close"
    /\ mon.todo = NoPositions
    /\ mon' = [mon EXCEPT !.pc = "email"]
    /\ UNCHANGED << now, today, TRADE_MODE, db, ml, spo, alert, open_positions, active_trades, lock, trade_log,
                    positions_file, SYMBOL_CACHE, broker_orders, th >>

\* exit_monitor lines 794-805: the daily email, the end of the loop after
\* 15:30, else time.sleep(10).
MonitorEmail ==
    /\ mon.pc = "email"
    /\ LET emailed == mon.emailed \/ mon.now >= T_1525
       IN  mon' = [mon EXCEPT !.emailed = emailed, !.now = T_OPEN,
                              !.pc = IF mon.now >= T_CLOSED /\ emailed
                                     THEN "stopped" ELSE "top"]
    /\ UNCHANGED << now, today, TRADE_MODE, db, ml, spo, alert, open_positions, active_trades, lock, trade_log,
                    positions_file, SYMBOL_CACHE, broker_orders, th >>

\* An exception that ends the monitor's thread.
MonitorExceptEscapes ==
    /\ mon.pc = "except"
    /\ mon' = [mon EXCEPT !.pc = "stopped"]
    /\ UNCHANGED << now, today, TRADE_MODE, db, ml, spo, alert, open_positions, active_trades, lock, trade_log,
                    positions_file, SYMBOL_CACHE, broker_orders, th >>

\* exit_monitor lines 807-809: except Exception, the error is logged,
\* time.sleep(10), and the while loop takes its next iteration.
MonitorExcept ==
    /\ mon.pc = "except"
    /\ mon' = [mon EXCEPT !.pc = "top"]
    /\ UNCHANGED << now, today, TRADE_MODE, db, ml, spo, alert, open_positions, active_trades, lock, trade_log,
                    positions_file, SYMBOL_CACHE, broker_orders, th >>

verify_and_clear_positions_after_autosquare ==
    \/ VerifyPoll
    \/ VerifyClearSave
    \/ VerifyClose
    \/ VerifyDone

exit_monitor ==
    \/ MonitorTop
    \/ MonitorFetch
    \/ MonitorDecide
    \/ MonitorSleep
    \/ MonitorSell
    \/ MonitorSellSave
    \/ MonitorReturned
    \/ MonitorSave
    \/ MonitorSaved
    \/ verify_and_clear_positions_after_autosquare
    \/ MonitorEmail
    \/ MonitorExcept

\* ------------------------------------------------- the process and the days
\* The session of the next day opens. The night is long enough for every
\* entry attempt to have ended and for the monitor to have left its loop.
NextDay ==
    /\ now = T_CLOSED
    /\ today < MaxDays
    /\ \A t \in Threads : th[t].pc \in {"idle", "done"}
    /\ mon.pc \in {"stopped", "down"}
    /\ now' = T_OPEN
    /\ today' = today + 1
    /\ UNCHANGED << TRADE_MODE, db, ml, spo, alert, open_positions, active_trades, lock, trade_log,
                    positions_file, SYMBOL_CACHE, broker_orders, th, mon >>

\* The process ends: its threads end with it, its globals (lines 69-87) are
\* lost, the positions file and the broker's book stay.
Shutdown ==
    /\ mon.pc # "down"
    /\ open_positions' = NoPositions
    /\ active_trades' = {}
    /\ lock' = 0
    /\ trade_log' = {}
    /\ SYMBOL_CACHE' = {}
    /\ th' = [t \in Threads |-> IF th[t].pc = "idle" THEN th[t] ELSE DoneThread]
    /\ mon' = [IdleMonitor EXCEPT !.pc = "down"]
    /\ UNCHANGED << now, today, TRADE_MODE, db, ml, spo, alert, positions_file, broker_orders >>

\* startup_event of a new process: open_positions = load_positions() or {},
\* and the exit monitor's thread is started.
startup_event ==
    /\ mon.pc = "down"
    /\ open_positions' = load_positions(positions_file)
    /\ mon' = IdleMonitor
    /\ UNCHANGED << now, today, TRADE_MODE, db, ml, spo, alert, active_trades, lock, trade_log,
                    positions_file, SYMBOL_CACHE, broker_orders, th >>

EntryNext ==
    \/ Tick
    \/ chartink_alert(Payloads)
    \/ \E t \in Threads : secure_place_thread(t)

Next ==
    \/ Tick
    \/ chartink_alert(ServicePayloads)
    \/ \E t \in Threads : secure_place_thread(t)
    \/ exit_monitor

\* The whole service: alerts, entry threads, the exit monitor.
Spec == Init /\ [][Next]_vars

\* The service running for several days.
DaysNext ==
    \/ Next
    \/ NextDay

SpecDays == Init /\ [][DaysNext]_vars

\* The service stopped and started again within a day.
RestartNext ==
    \/ Next
    \/ Shutdown
    \/ startup_event

SpecRestart == Init /\ [][RestartNext]_vars

\* The service stopped and started again, over several days.
NightsNext ==
    \/ RestartNext
    \/ NextDay

SpecNights == Init /\ [][NightsNext]_vars

\* The alert endpoint and the entry threads, the exit monitor asleep.
InitAlerts == Started(NoDocument, NAlerts)

SpecAlerts == InitAlerts /\ [][EntryNext]_vars

\* The alert endpoint with every kind of body.
EndpointNext ==
    \/ Tick
    \/ chartink_alert(Bodies)
    \/ \E t \in Threads : secure_place_thread(t)

SpecEndpoint == InitAlerts /\ [][EndpointNext]_vars

\* The alert endpoint and the entry threads for a share below half a rupee.
PennyNext ==
    \/ Tick
    \/ chartink_alert(PennyPayloads)
    \/ \E t \in Threads : secure_place_thread(t)

SpecPenny == InitAlerts /\ [][PennyNext]_vars

\* The alert endpoint and the entry threads for a share one unit of which
\* costs more than CAPITAL_PER_TRADE.
DearNext ==
    \/ Tick
    \/ chartink_alert(DearPayloads)
    \/ \E t \in Threads : secure_place_thread(t)

SpecDear == InitAlerts /\ [][DearNext]_vars

\* The alert endpoint and the entry threads for alerts that spell one share
\* in different ways.
SpelledNext ==
    \/ Tick
    \/ chartink_alert(SpelledPayloads)
    \/ \E t \in Threads : secure_place_thread(t)

SpecSpelled == InitAlerts /\ [][SpelledNext]_vars

\* The same with one more simultaneous alert.
InitEntry == Started(NoDocument, NConcurrent)

SpecEntry == InitEntry /\ [][EntryNext]_vars

\* ------------------------------------------------ safe_place_order by itself
\* The answers of the broker to three successive submissions.
AnswerTriples ==
    {<< a, b, c >> : a \in BrokerAnswers, b \in BrokerAnswers, c \in BrokerAnswers}

\* One call of safe_place_order(order), lines 422-439, with the answers the
\* broker would give to the submissions of the order.
SafePlaceOrder ==
    /\ \E symbol \in {"AAA", "BBB"}, side \in {1, -1}, answers \in AnswerTriples :
          LET r == safe_place_order_run(TRADE_MODE, answers)
          IN  /\ spo' = [order |-> Order(symbol, side), answers |-> answers,
                         calls |-> r.calls, refreshes |-> r.refreshes,
                         resp |-> r.resp]
              /\ broker_orders' = Submitted(broker_orders, Order(symbol, side), r.calls)
    /\ UNCHANGED << now, today, TRADE_MODE, db, ml, alert, open_positions, active_trades,
                    lock, trade_log, positions_file, SYMBOL_CACHE, th, mon >>

OrderNext ==
    \/ SafePlaceOrder

SpecOrder == Init /\ [][OrderNext]_vars

\* -------------------------------------------- exit_monitor.py: monitor_loop
\* The ids of the rows of open_trades.
Rows == 1..MaxTrades

\* range(3) of get_db_connection.
DbAttempts == 3

\* The database server stops answering: the connection monitor_loop holds
\* is lost with it.
DbDown ==
    /\ db.reachable
    /\ db' = [db EXCEPT !.reachable = FALSE]
    /\ ml' = [ml EXCEPT !.conn = FALSE]
    /\ UNCHANGED << now, today, TRADE_MODE, spo, alert, open_positions, active_trades, lock,
                    trade_log, positions_file, SYMBOL_CACHE, broker_orders, th, mon >>

\* The database server answers again.
DbUp ==
    /\ ~db.reachable
    /\ db' = [db EXCEPT !.reachable = TRUE]
    /\ UNCHANGED << now, today, TRADE_MODE, ml, spo, alert, open_positions, active_trades,
                    lock, trade_log, positions_file, SYMBOL_CACHE, broker_orders, th, mon >>

\* Another program inserts a row into open_trades.
InsertTrade ==
    /\ db.reachable
    /\ \E row \in Rows \ db.open_trades :
          db' = [db EXCEPT !.open_trades = db.open_trades \cup {row}]
    /\ UNCHANGED << now, today, TRADE_MODE, ml, spo, alert, open_positions, active_trades,
                    lock, trade_log, positions_file, SYMBOL_CACHE, broker_orders, th, mon >>

\* monitor_loop lines 133-141: the SELECT, which raises psycopg2.Error on a
\* lost connection, and the test for no trades.
LoopSelect ==
    /\ ml.pc = "select"
    /\ IF ~ml.conn THEN ml' = [ml EXCEPT !.pc = "db_error"]
       ELSE IF db.open_trades = {} THEN ml' = [ml EXCEPT !.pc = "sleep"]
       ELSE ml' = [ml EXCEPT !.pc = "check", !.trades = db.open_trades]
    /\ UNCHANGED << now, today, TRADE_MODE, db, spo, alert, open_positions, active_trades,
                    lock, trade_log, positions_file, SYMBOL_CACHE, broker_orders, th, mon >>

\* buy_price of the rows of open_trades (100.00).
BuyPrice == 10000

\* What get_ltp may return for a row: None, or a price at or next to the
\* edges of the band.
LoopQuotes == {None, 9950, 9960, 10390, 10400}

\* What breeze.place_order may answer to the SELL: a dict whose Success
\* entry holds the order, the dict of a refused order (its Success entry is
\* None, its Error entry the reason), None, or an exception.
SellResponses == {"confirmed", "refused", "none", "raises"}

\* resp and "Success" in str(resp), line 105: the text of either dict
\* contains the key Success.
SellSucceeded(resp) == resp \in {"confirmed", "refused"}

\* change_pct <= -0.5 or change_pct >= 4, line 95.
ExitConditionMet(ltp, buy_price) ==
    \/ (ltp - buy_price) * 200 <= -buy_price
    \/ (ltp - buy_price) * 100 >= 4 * buy_price

\* check_and_sell, lines 86-121: whether the row is deleted. The DELETE
\* raises on a lost connection, and check_and_sell's own except block
\* takes that error and the one of a SELL that raises.
check_and_sell(test_mode, conn, ltp, resp) ==
    IF ltp = None THEN FALSE
    ELSE IF ~ExitConditionMet(ltp, BuyPrice) THEN FALSE
    ELSE IF test_mode THEN conn
    ELSE resp # "raises" /\ SellSucceeded(resp) /\ conn

\* One call of check_and_sell(trade) of the batch of lines 146-149; no SELL
\* is placed in TEST_MODE or without an exit condition.
LoopCheck ==
    /\ ml.pc = "check"
    /\ \E trade \in ml.trades, ltp \in LoopQuotes, answer \in SellResponses :
          LET placed == /\ ~ml.TEST_MODE
                        /\ ltp # None
                        /\ ExitConditionMet(ltp, BuyPrice)
              resp == IF placed THEN answer ELSE "none"
          IN  /\ ml' = [ml EXCEPT !.trades = ml.trades \ {trade},
                                  !.checked = [trade |-> trade, ltp |-> ltp,
                                               resp |-> resp]]
              /\ db' = IF check_and_sell(ml.TEST_MODE, ml.conn, ltp, resp)
                       THEN [db EXCEPT !.open_trades = db.open_trades \ {trade}]
                       ELSE db
    /\ UNCHANGED << now, today, TRADE_MODE, spo, alert, open_positions, active_trades, lock,
                    trade_log, positions_file, SYMBOL_CACHE, broker_orders, th, mon >>

\* monitor_loop lines 151-157: every future has its result, the line for
\* performance_log.txt is written, or open / write raises OSError.
LoopLog ==
    /\ ml.pc = "check"
    /\ ml.trades = {}
    /\ \E written \in BOOLEAN :
          ml' = [ml EXCEPT !.pc = IF written THEN "sleep" ELSE "unexpected"]
    /\ UNCHANGED << now, today, TRADE_MODE, db, spo, alert, open_positions, active_trades,
                    lock, trade_log, positions_file, SYMBOL_CACHE, broker_orders, th, mon >>

\* time.sleep(60) of lines 138 and 157, then the next cycle.
LoopSleep ==
    /\ ml.pc = "sleep"
    /\ ml' = [ml EXCEPT !.pc = "select"]
    /\ UNCHANGED << now, today, TRADE_MODE, db, spo, alert, open_positions, active_trades,
                    lock, trade_log, positions_file, SYMBOL_CACHE, broker_orders, th, mon >>

\* lines 165-167: except Exception, time.sleep(60), then the next cycle.
LoopUnexpected ==
    /\ ml.pc = "unexpected"
    /\ ml' = [ml EXCEPT !.pc = "select"]
    /\ UNCHANGED << now, today, TRADE_MODE, db, spo, alert, open_positions, active_trades,
                    lock, trade_log, positions_file, SYMBOL_CACHE, broker_orders, th, mon >>

\* lines 159-162: except psycopg2.Error, time.sleep(5), get_db_connection
\* is called.
LoopDbError ==
    /\ ml.pc = "db_error"
    /\ ml' = [ml EXCEPT !.pc = "connect", !.attempt = 0]
    /\ UNCHANGED << now, today, TRADE_MODE, db, spo, alert, open_positions, active_trades,
                    lock, trade_log, positions_file, SYMBOL_CACHE, broker_orders, th, mon >>

\* get_db_connection with one more turn of its for loop.
get_db_connection_again ==
    /\ ml.pc = "connect"
    /\ IF db.reachable
       THEN ml' = [ml EXCEPT !.pc = "select", !.conn = TRUE, !.attempt = ml.attempt + 1]
       ELSE IF ml.attempt + 1 < DbAttempts + 1
       THEN ml' = [ml EXCEPT !.attempt = ml.attempt + 1]
       ELSE ml' = [ml EXCEPT !.pc = "terminated", !.attempt = ml.attempt + 1]
    /\ UNCHANGED << now, today, TRADE_MODE, db, spo, alert, open_positions, active_trades,
                    lock, trade_log, positions_file, SYMBOL_CACHE, broker_orders, th, mon >>

\* get_db_connection, lines 24-34, one attempt of its for loop: connected
\* (and lines 162-163 have their new cursor), or time.sleep(5) and the next
\* attempt, or, after the last attempt, ConnectionError. The error is raised
\* inside the except block of line 159, whose try statement no longer
\* handles it: it leaves monitor_loop.
get_db_connection ==
    /\ ml.pc = "connect"
    /\ IF db.reachable
       THEN ml' = [ml EXCEPT !.pc = "select", !.conn = TRUE, !.attempt = ml.attempt + 1]
       ELSE IF ml.attempt + 1 < DbAttempts
       THEN ml' = [ml EXCEPT !.attempt = ml.attempt + 1]
       ELSE ml' = [ml EXCEPT !.pc = "terminated", !.attempt = ml.attempt + 1]
    /\ UNCHANGED << now, today, TRADE_MODE, db, spo, alert, open_positions, active_trades,
                    lock, trade_log, positions_file, SYMBOL_CACHE, broker_orders, th, mon >>

monitor_loop ==
    \/ LoopSelect
    \/ LoopCheck
    \/ LoopLog
    \/ LoopSleep
    \/ LoopUnexpected
    \/ LoopDbError
    \/ get_db_connection

LoopNext ==
    \/ DbDown
    \/ DbUp
    \/ InsertTrade
    \/ monitor_loop

\* exit_monitor.py running against its database.
SpecLoop == Init /\ [][LoopNext]_vars

\* exit_monitor.py with either setting of TEST_MODE.
InitSell ==
    /\ StartedService(NoDocument, NThreads)
    /\ ml \in {[IdleLoop EXCEPT !.TEST_MODE = test_mode] : test_mode \in BOOLEAN}

SpecSell == InitSell /\ [][LoopNext]_vars

\* ------------------------------------------------------------- properties
\* The positions of a thread between the duplicate guard and the return of
\* its place_order call.
InPlaceOrder == {"po_time", "po_checks", "po_buy", "po_save", "po_saved"}

\* C1: of the concurrent entry attempts for one symbol at most one has its
\* BUY accepted and records a position; no two attempts for the same symbol
\* both come back from place_order with an accepted order.
C1_OneBuyPerSymbol ==
    \A t1 \in Threads, t2 \in Threads :
        (t1 # t2 /\ th[t1].symbol = th[t2].symbol /\ th[t1].ret = "ok")
            => th[t2].ret # "ok"

\* C2: at no time are two entry attempts for the same symbol both past the
\* duplicate guard with their place_order call unfinished.
C2_OneAdmittedPerSymbol ==
    \A t1 \in Threads, t2 \in Threads :
        (t1 # t2 /\ th[t1].symbol = th[t2].symbol /\ th[t1].pc \in InPlaceOrder)
            => th[t2].pc \notin InPlaceOrder

\* C6: a step that submits a BUY (real or simulated) or adds a position to
\* open_positions is taken while the IST time is before 15:10.
C6_NoBuyAfterCutoff ==
    [][((\E t \in Threads : th[t].pc = "po_buy" /\ th'[t].pc # "po_buy")
        \/ (\E s \in DOMAIN open_positions' : s \notin DOMAIN open_positions))
       => now < T_1510]_vars

\* The positions of the monitor inside verify_and_clear_positions_after_autosquare.
InVerify == {"verify", "clear_save", "close"}

\* C3: when verify_and_clear_positions_after_autosquare returns,
\* open_positions is empty.
C3_EmptyAfterVerify ==
    [][((mon.pc \in InVerify \/ (mon.pc = "saved" /\ mon.resume = "email"))
        /\ mon'.pc = "email") => open_positions' = NoPositions]_vars

\* C5: the quantity of a SELL order the monitor or the reconciliation
\* submitted for a position is the qty stored in that position's record.
C5_SellQtyIsStoredQty ==
    mon.qty # 0 => mon.qty = mon.todo[mon.symbol].qty

\* C4: an exit the monitor records for a position whose live price crossed
\* its stop or its target carries the reason of the exit, EXIT_STOP or
\* EXIT_TARGET.
C4_ExitReasonRecorded ==
    [][(mon.caller = "scan" /\ mon' # mon /\ trade_log' # trade_log)
       => \E r \in trade_log' \ trade_log :
            r.status = IF AtStop(mon.ltp, mon.todo[mon.symbol])
                       THEN "EXIT_STOP" ELSE "EXIT_TARGET"]_vars

\* C7: outside REAL mode the broker's place_order is never called, every
\* BUY is answered ok and no exit is recorded as a broker SELL.
C7_NoBrokerOrderOutsideReal ==
    TRADE_MODE # "REAL"
        => /\ broker_orders = {}
           /\ \A r \in trade_log : /\ r.action = "BUY" => r.status = "ok"
                                   /\ r.action # "SELL"

\* C7, its case: a TEST run that entered a position on an alert and closed
\* it by the monitor's simulated exit.
C7_SimulatedTrading ==
    /\ TRADE_MODE = "TEST"
    /\ Record("AAA", "BUY", "ok") \in trade_log
    /\ Record("AAA", "SELL_SIM", "simulated_exit") \in trade_log
    /\ open_positions = NoPositions

\* C9: an entry attempt whose BUY the broker did not accept (or whose
\* placement raised) changes neither open_positions nor the positions file,
\* in the step that places the order and in every later step of the attempt.
C9_FailedBuyAddsNoPosition ==
    [][\A t \in Threads :
         ((th[t].pc = "po_buy" /\ th'[t].ret = "failed")
          \/ (th[t].ret = "failed" /\ th'[t] # th[t]))
            => UNCHANGED << open_positions, positions_file >>]_vars

\* C9, its case: the broker refused the BUY of an attempt that is about to
\* end, and the symbol has no position.
C9_BuyRefused ==
    \E t \in Threads :
        /\ th[t].ret = "failed"
        /\ th[t].pc = "finally_locked"
        /\ Record(th[t].symbol, "BUY", "failed") \in trade_log
        /\ th[t].symbol \notin DOMAIN open_positions

\* C10: a SELL the broker did not confirm leaves the position in
\* open_positions, and the monitor's next look at a position with an
\* unconfirmed SELL places the SELL again.
C10_ExitRetriedUntilConfirmed ==
    [][/\ (mon.pc = "sell" /\ mon'.pc = "returned" /\ mon.caller = "scan")
            => open_positions' = open_positions
       /\ (/\ mon.pc = "decide"
           /\ mon' # mon
           /\ Record(mon.symbol, "SELL", "failed") \in trade_log
           /\ mon.symbol \in DOMAIN open_positions)
            => mon'.pc = "sell"]_vars

\* C8: an entry candidate whose live price, as should_enter_trade returned
\* it, exceeds trigger price * (1 + ENTRY_TOLERANCE) is rejected with reason
\* too_far_above_trigger and neither then nor later places an order or adds a
\* position; a candidate is rejected for that reason only when its price
\* exceeds the tolerance, and is admitted only with a price within it.
C8_ToleranceGate ==
    [][\A t \in Threads :
         /\ (th[t].pc = "po_checks" /\ th'[t].pc # "po_checks")
              => /\ (th'[t].ltp * 100 > th[t].price * (100 + ENTRY_TOLERANCE))
                      <=> th'[t].ret = "too_far_above_trigger"
                 /\ th'[t].ret = "too_far_above_trigger"
                      => /\ th'[t].pc = "finally"
                         /\ Record(th[t].symbol, "BUY_SKIPPED", "too_far_above_trigger")
                                \in trade_log'
                 /\ th'[t].pc = "po_buy" => th'[t].ltp # None
         /\ ((th[t].ret = "too_far_above_trigger" \/ th'[t].ret = "too_far_above_trigger")
               /\ th'[t] # th[t])
              => UNCHANGED << open_positions, broker_orders >>]_vars

\* C8, its case: of the alert AAA,BBB / 100,50 AAA was admitted at a live
\* price of 101 and holds a position, BBB was rejected at a live price of 60
\* and holds none.
C8_AdmitsAAAOnly ==
    /\ "AAA" \in DOMAIN open_positions
    /\ open_positions["AAA"].entry_price = 10100
    /\ "BBB" \notin DOMAIN open_positions
    /\ \E t \in Threads :
          /\ th[t].symbol = "BBB"
          /\ th[t].price = 5000
          /\ th[t].ltp = 6000
          /\ th[t].ret = "too_far_above_trigger"

AtRest ==
    /\ \A t \in Threads : th[t].pc \in {"idle", "done"}
    /\ mon.pc \in {"top", "stopped"}

\* C14: whenever no entry, exit or reconciliation step is in progress, the
\* positions the file holds are the positions of open_positions.
C14_FileIsMemoryAtRest ==
    AtRest => load_positions(positions_file) = open_positions

\* C15: the text save_positions dumps loads back as the very positions of
\* open_positions (symbols, entry_price, qty, stop_price), and startup_event
\* installs what load_positions reads from the file as open_positions.
C15_SaveLoadRoundTrip ==
    [][/\ \A t \in Threads :
            (th[t].pc = "po_save" /\ th'[t].pc = "po_saved")
                => load_positions(th'[t].buf) = open_positions
       /\ (mon.pc # "saved" /\ mon'.pc = "saved")
                => load_positions(mon'.buf) = open_positions
       /\ (mon.pc = "down" /\ mon'.pc # "down")
                => /\ open_positions' = load_positions(positions_file)
                   /\ \A s \in DOMAIN open_positions' :
                        positions_file[1][s] = DumpPosition(open_positions'[s])]_vars

\* C15, its case: a new process holds the position an earlier process
\* bought at 101.00 with the stop 99.99; nothing but the file told it.
C15_PositionReloaded ==
    /\ mon.pc \notin {"down", "stopped"}
    /\ trade_log = {}
    /\ "AAA" \in DOMAIN open_positions
    /\ open_positions["AAA"].entry_price = 10100
    /\ open_positions["AAA"].stop_price = 9999
    /\ load_positions(positions_file) = open_positions

\* C12: when the monitor looks at a position that was opened on an earlier
\* day (it is held longer than any holding duration of an intraday service)
\* and whose live price is strictly between stop and target, it closes the
\* position and records the reason EXIT_TIME.
C12_TimeExit ==
    [][(/\ mon.pc = "decide"
        /\ mon' # mon
        /\ mon.todo[mon.symbol].timestamp.date < today
        /\ ~ExitTriggered(mon.ltp, mon.todo[mon.symbol]))
       => \E r \in trade_log' \ trade_log :
             r.symbol = mon.symbol /\ r.status = "EXIT_TIME"]_vars

\* C13: on a day after the first, once the session has closed and the entry
\* attempts have ended, no position is open: none is carried into the
\* next session.
C13_NoPositionCarried ==
    (today > 1 /\ now = T_CLOSED /\ \A t \in Threads : th[t].pc \in {"idle", "done"})
        => open_positions = NoPositions

C19_AtrStopAndTarget ==
    /\ compute_technical_stop(10000, [atr |-> 200, prev_high |-> 10000]) = 9700
    /\ [][(mon.pc = "decide" /\ mon' # mon)
           => LET pos == mon.todo[mon.symbol]
              IN  \A candles \in Candles \ {NoCandles} :
                    (/\ pos.stop_price = compute_technical_stop(pos.entry_price, candles)
                     /\ pos.stop_price * 10 = pos.entry_price * 10 - ATR_MULT * candles.atr)
                        => (mon'.pc # "scan"
                              <=> (\/ mon.ltp <= pos.stop_price
                                   \/ mon.ltp >= pos.entry_price + 2 * candles.atr))]_vars

\* C20: an exception raised inside an iteration of exit_monitor is handled
\* inside the loop, which goes on with a further iteration; the loop ends
\* only at its own break, in an iteration that began after 15:30 and has
\* passed the report step with the email sent.
C20_ExceptionsStayInLoop ==
    [][/\ mon.pc = "except" => mon'.pc \in {"except", "top"}
       /\ (mon.pc # "stopped" /\ mon'.pc = "stopped")
            => /\ mon.pc = "email"
               /\ mon.now >= T_CLOSED
               /\ mon'.emailed]_vars

\* C20, its case: during the reconciliation, with a position still open,
\* the broker's answer made verify_and_clear_positions_after_autosquare raise.
C20_RaisedInReconciliation ==
    /\ mon.pc = "except"
    /\ now >= T_1515
    /\ open_positions # NoPositions

\* The (symbol, price) pairs of the entry threads a step starts.
StartedPairs ==
    {<< th'[t].symbol, th'[t].price >> :
        t \in {u \in Threads : th[u].pc = "idle" /\ th'[u].pc = "start"}}

\* A step of the alert endpoint.
AlertHandled == alert' # alert \/ StartedPairs # {}

\* C16: an alert of comma-joined symbols and prices is not answered with an
\* error because one of its prices is missing or unparsable, and every
\* symbol whose own price is well-formed has its entry attempt started with
\* that price.
C16_BadEntryDroppedAlone ==
    [][(/\ AlertHandled
        /\ alert'.data.kind = "object"
        /\ alert'.data.items = << >>
        /\ alert'.data.stocks # << "" >>)
       => /\ alert'.status = "success"
          /\ \A i \in 1..Len(alert'.data.stocks) :
                (/\ i <= Len(alert'.data.trigger_prices)
                 /\ float(alert'.data.trigger_prices[i]) # ValueError)
                    => << alert'.data.stocks[i], float(alert'.data.trigger_prices[i]) >>
                            \in StartedPairs]_vars

\* C17: an alert whose prices are all well-formed, in any of the three
\* shapes (comma-joined strings, a list of per-symbol objects, one
\* per-symbol object), is not answered with an error, also when it names no
\* symbol, and starts one entry attempt for each of its (symbol, price)
\* pairs.
C17_ThreeShapes ==
    [][(/\ AlertHandled
        /\ \A i \in 1..Len(alert'.data.trigger_prices) :
              alert'.data.trigger_prices[i] = ""
              \/ float(alert'.data.trigger_prices[i]) # ValueError)
       => LET data == alert'.data
              joined == {<< data.stocks[i], float(data.trigger_prices[i]) >> :
                            i \in {j \in 1..Len(data.stocks) : data.stocks[j] # ""}}
              items == {<< data.items[i].symbol, float(data.items[i].price) >> :
                            i \in 1..Len(data.items)}
          IN  /\ alert'.status # "error"
              /\ StartedPairs = joined \cup items]_vars

\* C21: monitor_loop never terminates, however long the database stays
\* unreachable.
C21_LoopNeverTerminates == ml.pc # "terminated"

\* C22: one call of safe_place_order submits the order at most twice; a
\* second submission is made only when the first was answered with the
\* authentication failure, after exactly one token refresh, and what the
\* second submission answered is returned, whatever it is.
C22_OneShotRetry ==
    spo # NoCall
        => /\ spo.calls <= 2
           /\ spo.calls = 2 <=> (TRADE_MODE = "REAL" /\ spo.answers[1] = "auth_failed")
           /\ spo.refreshes = IF spo.calls = 2 THEN 1 ELSE 0
           /\ spo.calls = 2 => spo.resp = Response(spo.answers[2])
           /\ spo.calls = 1 => spo.resp = Response(spo.answers[1])

\* C22, its case: the broker answered the authentication failure to the
\* first and to the second submission of a SELL: the second answer was
\* returned after two submissions and one refresh.
C22_SecondFailureReturned ==
    /\ spo.order = Order("AAA", -1)
    /\ spo.answers = << "auth_failed", "auth_failed", "ok" >>
    /\ spo.calls = 2
    /\ spo.refreshes = 1
    /\ spo.resp = "auth_failed"
    /\ Order("AAA", -1) \in broker_orders

\* C23: a step that changes open_positions or active_trades is taken by the
\* thread that holds the lock.
C23_MutationsUnderLock ==
    [][(open_positions' # open_positions \/ active_trades' # active_trades)
       => \E t \in Threads : lock = t /\ th'[t] # th[t]]_vars

\* An attempt that secure_place_thread itself rejected: by the duplicate
\* guard, or by the time cutoff (a post_15_10 return while place_order has
\* logged no late skip for the symbol).
RejectedInSecure(t) ==
    \/ th[t].ret = "duplicate"
    \/ /\ th[t].ret = "post_15_10"
       /\ Record(th[t].symbol, "BUY_SKIPPED_LATE", "skipped_late") \notin trade_log

\* C24: no step of an entry attempt that was rejected in secure_place_thread
\* by the time cutoff or by the duplicate guard changes active_trades.
C24_RejectedLeavesMarkers ==
    [][\A t \in Threads :
         (RejectedInSecure(t) /\ th'[t] # th[t])
            => active_trades' = active_trades]_vars

\* C25: while a symbol's position stays in open_positions, its qty, its
\* entry_price and its stop_price stay what they were.
C25_PositionFieldsFrozen ==
    [][\A s \in DOMAIN open_positions \cap DOMAIN open_positions' :
         /\ open_positions'[s].qty = open_positions[s].qty
         /\ open_positions'[s].entry_price = open_positions[s].entry_price
         /\ open_positions'[s].stop_price = open_positions[s].stop_price]_vars

\* C26: every position of open_positions has its stop_price below its
\* entry_price and its target entry_price * (1 + TARGET_PCT) above it.
C26_StopBelowEntryBelowTarget ==
    \A s \in DOMAIN open_positions :
        /\ open_positions[s].stop_price < open_positions[s].entry_price
        /\ open_positions[s].entry_price * (100 + TARGET_PCT)
              > open_positions[s].entry_price * 100

C28_OneCloseAttemptEach ==
    [][(/\ mon.pc = "close" \/ mon.caller = "close"
        /\ mon' # mon
        /\ open_positions' # open_positions
        /\ TRADE_MODE = "REAL")
       => \A s \in DOMAIN open_positions \ DOMAIN open_positions' :
            \/ Record(s, "SELL", "ok") \in trade_log'
            \/ Record(s, "SELL", "failed") \in trade_log']_vars

\* C29: in a cycle that began before 15:10 the monitor removes a position,
\* places a SELL or logs an exit only when the price it fetched is at or
\* above entry * (1 + TARGET_PCT) or at or below the stop of the position
\* as the cycle read it; a fetch that gets no price or no symbol code
\* changes nothing, and a price strictly between the two sends the monitor
\* on to the next position.
C29_ExitOnlyAtThreshold ==
    [][LET pos == mon.todo[mon.symbol]
           stop100 == IF pos.stop_price # None THEN pos.stop_price * 100
                      ELSE pos.entry_price * (100 - STOPLOSS_PCT)
           at_threshold == \/ mon.ltp * 100 >= pos.entry_price * (100 + TARGET_PCT)
                           \/ mon.ltp * 100 <= stop100
       IN  /\ (/\ mon.caller = "scan"
               /\ mon' # mon
               /\ << open_positions, broker_orders, trade_log >>'
                     # << open_positions, broker_orders, trade_log >>)
                => at_threshold
           /\ (mon.pc = "scan" /\ mon' # mon)
                => UNCHANGED << open_positions, broker_orders, trade_log >>
           /\ (mon.pc = "decide" /\ mon' # mon /\ ~at_threshold)
                => mon'.pc = "scan"]_vars

\* C29, its case: in REAL mode the monitor fetched a price at or below the
\* stop of a position and strictly below its entry price, its SELL was
\* accepted and the position is removed.
C29_ClosedAtStop ==
    /\ TRADE_MODE = "REAL"
    /\ mon.pc = "sell_save"
    /\ mon.caller = "scan"
    /\ mon.ltp <= mon.todo[mon.symbol].stop_price
    /\ mon.ltp < mon.todo[mon.symbol].entry_price
    /\ mon.symbol \notin DOMAIN open_positions

\* C30: from 15:10 on the monitor changes open_positions only from 15:15
\* on and only inside the end-of-day reconciliation.
C30_NoExitAfter1510 ==
    [][(mon' # mon /\ open_positions' # open_positions /\ now >= T_1510)
       => /\ now >= T_1515
          /\ mon.pc \in InVerify \/ mon.caller = "close"]_vars

\* C31: a BUY that the risk rule of place_order sized (a live price and a
\* stop below it) has a quantity within both caps: qty * ltp is at most
\* CAPITAL_PER_TRADE and qty * (ltp - tech_stop) at most
\* CAPITAL_PER_TRADE * RISK_PCT.
C31_QuantityWithinCaps ==
    [][\A t \in Threads :
         (/\ th[t].pc = "po_buy"
          /\ th'[t].pc = "po_save"
          /\ th'[t].ltp # None
          /\ open_positions'[th[t].symbol].stop_price < th'[t].ltp)
            => LET ltp == th'[t].ltp
                   pos == open_positions'[th[t].symbol]
               IN  /\ pos.qty * ltp <= CAPITAL_PER_TRADE
                   /\ pos.qty * (ltp - pos.stop_price) * 100
                         <= CAPITAL_PER_TRADE * RISK_PCT]_vars

\* C32: every entry attempt an alert of comma-joined symbols and prices
\* starts is for a symbol of the alert with the price listed at that
\* symbol's own position; a symbol whose own price is empty or missing gets
\* no entry attempt.
C32_PairedByPosition ==
    [][(AlertHandled /\ alert'.data.kind = "object" /\ alert'.data.items = << >>)
       => \A pair \in StartedPairs :
            \E i \in 1..Len(alert'.data.stocks) :
                /\ alert'.data.stocks[i] = pair[1]
                /\ i <= Len(alert'.data.trigger_prices)
                /\ alert'.data.trigger_prices[i] # ""
                /\ float(alert'.data.trigger_prices[i]) = pair[2]]_vars

\* The attempt of thread t ends in this step with a rejection for reason.
Rejected(t, reason) ==
    /\ th[t].pc \notin {"finally", "finally_locked", "done"}
    /\ th'[t].pc = "finally"
    /\ th'[t].ret = reason

\* The duplicate guard's condition for the attempt of thread t.
IsDuplicate(t) ==
    th[t].symbol \in active_trades \/ th[t].symbol \in DOMAIN open_positions

\* C33: the entry checks run in the order time cutoff, duplicate guard,
\* price sanity, historical data. An attempt rejected for a check has
\* passed the checks before it and fails that one, an attempt that reaches
\* a check it fails is rejected there, the reason is recorded in trade_log
\* and each check has a reason of its own; a rejected attempt runs no
\* further check and places no order.
C33_FirstFailingCheck ==
    [][\A t \in Threads :
        LET symbol == th[t].symbol
            sane == /\ th'[t].ltp # None
                    /\ th'[t].ltp * 100 <= th[t].price * (100 + ENTRY_TOLERANCE)
        IN  /\ (th[t].pc = "start" /\ th'[t] # th[t])
                  => (Rejected(t, "post_15_10") <=> now >= T_1510)
            /\ (th[t].pc = "guard_locked" /\ th'[t] # th[t])
                  => (Rejected(t, "duplicate") <=> IsDuplicate(t))
            /\ Rejected(t, "post_15_10")
                  => /\ th[t].pc \in {"start", "po_time"}
                     /\ now >= T_1510
                     /\ \/ Record(symbol, "BUY_SKIPPED_POST_15_10", "skipped_late") \in trade_log'
                        \/ Record(symbol, "BUY_SKIPPED_LATE", "skipped_late") \in trade_log'
            /\ Rejected(t, "post_15_10_time")
                  => /\ th[t].pc = "po_checks"
                     /\ now >= T_1510
                     /\ Record(symbol, "BUY_SKIPPED", "post_15_10_time") \in trade_log'
            /\ Rejected(t, "duplicate")
                  => /\ th[t].pc = "guard_locked"
                     /\ Record(symbol, "BUY_SKIPPED_DUPLICATE", "duplicate_skipped") \in trade_log'
            /\ Rejected(t, "too_far_above_trigger")
                  => /\ th[t].pc = "po_checks"
                     /\ now < T_1510
                     /\ ~sane
                     /\ Record(symbol, "BUY_SKIPPED", "too_far_above_trigger") \in trade_log'
            /\ Rejected(t, "no_candles")
                  => /\ th[t].pc = "po_checks"
                     /\ now < T_1510
                     /\ sane
                     /\ Record(symbol, "BUY_SKIPPED", "no_candles") \in trade_log'
            /\ (th[t].pc \in {"finally", "finally_locked"} /\ th[t].ret # "ok" /\ th'[t] # th[t])
                  => /\ th'[t].pc \in {"finally_locked", "done"}
                     /\ broker_orders' = broker_orders]_vars

\* C33, its case: of two alerts for AAA at 100.00 one attempt was rejected
\* by the duplicate guard and the other, which had passed it, by the price
\* check at a live price of 104.00; both reasons are recorded.
C33_DuplicateThenTooFar ==
    /\ \E t, u \in Threads :
          /\ th[t].pc = "finally" /\ th[t].ret = "duplicate" /\ th[t].symbol = "AAA"
          /\ th[u].pc = "finally" /\ th[u].ret = "too_far_above_trigger"
          /\ th[u].symbol = "AAA" /\ th[u].ltp = 10400
    /\ Record("AAA", "BUY_SKIPPED_DUPLICATE", "duplicate_skipped") \in trade_log
    /\ Record("AAA", "BUY_SKIPPED", "too_far_above_trigger") \in trade_log
    /\ open_positions = NoPositions

\* C34: no two positions of open_positions are for one instrument: their
\* symbols never resolve to the same broker symbol code.
C34_OnePositionPerInstrument ==
    \A s, u \in DOMAIN open_positions :
        _normalize_incoming_symbol(s) = _normalize_incoming_symbol(u) => s = u

\* C35: a symbol is in active_trades only while an entry attempt for it is
\* between the duplicate guard and the end of its finally block; hence
\* active_trades is empty whenever no attempt is in progress, and an attempt
\* that has finished, however it ended, blocks no later alert.
C35_MarkersOnlyInProgress ==
    \A s \in active_trades :
        \E t \in Threads :
            /\ th[t].symbol = s
            /\ th[t].pc \in {"po_time", "po_checks", "po_buy", "po_save",
                              "po_saved", "finally", "finally_locked"}

\* C35, its case: an attempt for AAA has finished after the broker refused
\* its BUY, and a later attempt for AAA has passed the duplicate guard.
C35_AdmittedAfterFailure ==
    \E t, u \in Threads :
        /\ th[t].pc = "done"
        /\ Record("AAA", "BUY", "failed") \in trade_log
        /\ th[u].symbol = "AAA"
        /\ th[u].pc = "po_checks"
        /\ active_trades = {"AAA"}
        /\ open_positions = NoPositions
        /\ Record("AAA", "BUY_SKIPPED_DUPLICATE", "duplicate_skipped") \notin trade_log

\* C36: a step of monitor_loop deletes a row of open_trades only if it is
\* the row check_and_sell was called for, the price fetched for it is at or
\* beyond -0.5% or +4% of buy_price and, when TEST_MODE is off, the broker
\* confirmed the SELL; after a failed fetch, a price inside the band or a
\* failed SELL the row stays.
C36_DeletedOnlyAfterExit ==
    [][(ml' # ml /\ db'.open_trades # db.open_trades)
       => LET c == ml'.checked
          IN  /\ db.open_trades \ db'.open_trades = {c.trade}
              /\ c.ltp # None
              /\ \/ (c.ltp - BuyPrice) * 1000 <= -5 * BuyPrice
                 \/ (c.ltp - BuyPrice) * 100 >= 4 * BuyPrice
              /\ ~ml.TEST_MODE => c.resp = "confirmed"]_vars

\* C37: get_db_connection makes at most three attempts; an attempt that
\* finds the database reachable ends the call with the connection made,
\* and only the third failed attempt in a row ends it with the error.
C37_ThreeAttempts ==
    /\ [](ml.attempt <= 3)
    /\ [][(ml.pc = "connect" /\ ml' # ml)
           => /\ ml'.attempt = ml.attempt + 1
              /\ db.reachable => (ml'.pc = "select" /\ ml'.conn)
              /\ ~db.reachable
                    => /\ ~ml'.conn
                       /\ ml'.pc = IF ml.attempt = 2 THEN "terminated" ELSE "connect"]_vars

\* C37, its case: the database was unreachable at the first attempt of a
\* call and reachable at the second, which has returned the connection.
C37_ConnectedAtSecondAttempt ==
    /\ ml.pc = "select"
    /\ ml.conn
    /\ ml.attempt = 2
    /\ db.reachable

====
